---- MODULE Spec2Model ----
(***************************************************************************)
(* Model of src/15.smart_pointers/src/main.rs: reference-counted handles   *)
(* (Rc<T>), interior-mutable cells (RefCell<T>), the list variants built   *)
(* from them, and the demonstration sequence run by main.                  *)
(*                                                                         *)
(* Two specifications share the same operations:                           *)
(*   Spec      an arbitrary single-threaded client issuing the operations  *)
(*             on a bounded heap;                                          *)
(*   MainSpec  the statement sequence of main(), one statement per step.   *)
(***************************************************************************)
EXTENDS Integers, Sequences, FiniteSets, TLC

VARIABLES heap, locals, guards, fault, hooks, pc, frames, out

vars == <<heap, locals, guards, fault, hooks, pc, frames, out>>

(* ---- bounds of the arbitrary-client specification ---- *)
MaxCells == 2
MaxLocals == 2
MaxGuards == 2
MaxVal == 15

NoCell == 0

(***************************************************************************)
(* Shared cell: the allocation behind an Rc<T>.                            *)
(*   kind          variant of the payload                                  *)
(*   val           the i32 carried by the payload                          *)
(*   own           handles (cell ids) the payload owns, in field order     *)
(*   strong_count  Rc::strong_count                                        *)
(*   borrow_state  flag of the RefCell in the payload: 0 Unborrowed,       *)
(*                 n > 0 SharedBorrowed(n), -1 ExclusiveBorrowed           *)
(*   destroyed     number of times the payload has been dropped            *)
(***************************************************************************)
FreshCell(k, v, o) ==
    [kind |-> k, val |-> v, own |-> o, strong_count |-> 1,
     borrow_state |-> 0, destroyed |-> 0]

(* Seeded fault: the count of a new cell starts at zero. *)
RcNewZero(h, k, v, o) == Append(h, [FreshCell(k, v, o) EXCEPT !.strong_count = 0])

(* Rc::new(value): allocates a cell with a count of one. *)
RcNew(h, k, v, o) == Append(h, FreshCell(k, v, o))

(* Seeded fault: a clone that does not count the new handle. *)
RcCloneNoInc(h, c) == h

(* Seeded fault: a clone that counts the new handle twice. *)
RcCloneTwice(h, c) == [h EXCEPT ![c].strong_count = @ + 2]

(* Rc::clone(&a): one more handle to the same cell, no copy of the payload. *)
RcClone(h, c) == [h EXCEPT ![c].strong_count = @ + 1]

(* Drop of one handle: the count goes down by one; at zero the payload is   *)
(* dropped, which drops the handles it owns in field order.                 *)
RECURSIVE DropHandle(_, _)
RECURSIVE DropAll(_, _)

(* Seeded fault: the payload is kept when the last handle goes. *)
DropHandleLeak(h, c) == [h EXCEPT ![c].strong_count = @ - 1]

(* Seeded fault: the payload is dropped while one handle is still left. *)
DropHandleEarly(h, c) ==
    LET h1 == [h EXCEPT ![c].strong_count = @ - 1]
    IN  IF h1[c].strong_count <= 1 /\ h1[c].destroyed = 0
        THEN DropAll([h1 EXCEPT ![c].destroyed = @ + 1, ![c].own = <<>>], h1[c].own)
        ELSE h1

(* Seeded fault: a drop that does not lower the count. *)
DropHandleNoDec(h, c) == h

(* Seeded fault: the payload is destroyed but the handles it owns are kept. *)
DropHandleShallow(h, c) ==
    LET h1 == [h EXCEPT ![c].strong_count = @ - 1]
    IN  IF h1[c].strong_count = 0
        THEN [h1 EXCEPT ![c].destroyed = @ + 1, ![c].own = <<>>]
        ELSE h1

DropHandle(h, c) ==
    LET h1 == [h EXCEPT ![c].strong_count = @ - 1]
    IN  IF h1[c].strong_count = 0
        THEN DropAll([h1 EXCEPT ![c].destroyed = @ + 1, ![c].own = <<>>], h1[c].own)
        ELSE h1

DropAll(h, hs) ==
    IF hs = <<>> THEN h ELSE DropAll(DropHandle(h, Head(hs)), Tail(hs))


(***************************************************************************)
(* RefCell<T> borrow flag.                                                 *)
(***************************************************************************)
Unborrowed == 0
ExclusiveBorrowed == -1

(* Seeded fault: borrow never refuses. *)
BorrowOkAlways(state) == TRUE

(* RefCell::borrow succeeds unless a RefMut is outstanding. *)
BorrowOk(state) == state >= Unborrowed

(* Seeded fault: borrow_mut refuses only when a RefMut is outstanding. *)
BorrowMutOkShared(state) == state >= Unborrowed

(* RefCell::borrow_mut succeeds only on an unborrowed cell. *)
BorrowMutOk(state) == state = Unborrowed

(* Flag after a successful borrow / borrow_mut. *)
AfterBorrow(state) == state + 1
AfterBorrowMut(state) == ExclusiveBorrowed

(* RefCell::borrow on the RefCell of cell c: the outcome and the heap after. *)
(* A refused request panics before it changes anything.                     *)
borrow(h, c) ==
    IF BorrowOk(h[c].borrow_state)
    THEN [ok |-> TRUE, heap |-> [h EXCEPT ![c].borrow_state = AfterBorrow(@)]]
    ELSE [ok |-> FALSE, heap |-> h]

(* Seeded fault: borrow_mut writes the flag before it checks it. *)
borrow_mut_eager(h, c) ==
    [ok |-> BorrowMutOk(h[c].borrow_state),
     heap |-> [h EXCEPT ![c].borrow_state = AfterBorrowMut(@)]]

(* RefCell::borrow_mut, likewise. *)
borrow_mut(h, c) ==
    IF BorrowMutOk(h[c].borrow_state)
    THEN [ok |-> TRUE, heap |-> [h EXCEPT ![c].borrow_state = AfterBorrowMut(@)]]
    ELSE [ok |-> FALSE, heap |-> h]

(* Seeded fault: dropping a Ref leaves the count of shared borrows as it is. *)
AfterReleaseKeep(state, excl) == IF excl THEN Unborrowed ELSE state

(* Seeded fault: dropping a RefMut leaves the cell exclusively borrowed. *)
AfterReleaseStuck(state, excl) == IF excl THEN state ELSE state - 1

(* Flag after the guard (Ref or RefMut) is dropped. *)
AfterRelease(state, excl) == IF excl THEN Unborrowed ELSE state - 1

(* Seeded fault: the addition lands in every RefCell<i32>. *)
AddAssignAll(h, c, n) ==
    [d \in DOMAIN h |-> IF h[d].kind = "RefInt" THEN [h[d] EXCEPT !.val = @ + n] ELSE h[d]]

(* `*guard += n` on a RefCell<i32>. *)
AddAssign(h, c, n) == [h EXCEPT ![c].val = @ + n]

(* Seeded fault: the slot keeps the handle it had, the new one is dropped. *)
AssignSlotDiscard(h, c, new) == DropHandle(h, new)

(* Seeded fault: the handle stored before is overwritten without a drop. *)
AssignSlotLeak(h, c, new) == [h EXCEPT ![c].own = <<new>>]

(* `*guard = new` on a RefCell<Rc<_>>: the handle stored before is dropped, *)
(* the new one takes its place.                                             *)
AssignSlot(h, c, new) ==
    LET old == h[c].own[1]
    IN  [DropHandle(h, old) EXCEPT ![c].own = <<new>>]

(* Payload variants that carry a RefCell. *)
HasRefCell(k) == k \in {"RefInt", "CycCons"}

(* CycList::tail: Some(&slot) for a Cons node, None for Nil. *)
tail(h, c) == IF h[c].kind = "CycCons" THEN c ELSE NoCell

(***************************************************************************)
(* Following the list from cell c for n links, as the Debug print of a     *)
(* list does: the node reached, or NoCell when the walk has ended at Nil   *)
(* before.                                                                 *)
(***************************************************************************)
MaxWalk == 4

RECURSIVE Walk(_, _, _)
Walk(h, c, n) ==
    IF n = 0 THEN c
    ELSE IF tail(h, c) = NoCell THEN NoCell
    ELSE Walk(h, h[tail(h, c)].own[1], n - 1)

(***************************************************************************)
(* Local variables and temporaries. A local owns zero or more handles:     *)
(* an Rc<T> owns one, a list node held by value owns the handles of its    *)
(* fields. A moved-out or not yet declared local is None.                  *)
(***************************************************************************)
(*   kind  "Rc", or the type of a value held directly                       *)
(*   val   its i32, if it has one                                          *)
(*   own   the handles it owns, in field order                             *)
(*   data  its String, if it has one                                       *)
(*   ref   the local it refers to, if it is a reference                    *)
Local(k, v, o, d, r) == [kind |-> k, val |-> v, own |-> o, data |-> d, ref |-> r]
None == Local("None", 0, <<>>, "", "")
RcLocal(c) == Local("Rc", 0, <<c>>, "", "")

Range(s) == {s[i] : i \in 1..Len(s)}
Remove(s, i) == SubSeq(s, 1, i - 1) \o SubSeq(s, i + 1, Len(s))

(* The cell reached from local v by following the owned handles at the     *)
(* given field positions.                                                  *)
RECURSIVE Follow(_, _, _)
Follow(h, c, path) ==
    IF path = <<>> THEN c ELSE Follow(h, h[c].own[Head(path)], Tail(path))

Resolve(h, loc, path) == Follow(h, loc.own[Head(path)], Tail(path))

(* A local that a live guard borrows from can be neither moved nor dropped. *)
Borrowed(v) == \E g \in DOMAIN guards : guards[g].via = v

Movable(v) == locals[v].kind = "Rc" /\ ~Borrowed(v)

MoveOut(dst, val, srcs) ==
    [n \in DOMAIN locals |->
        IF n = dst THEN val
        ELSE IF n \in Range(srcs) THEN None
        ELSE locals[n]]

Handles(srcs) == [i \in 1..Len(srcs) |-> locals[srcs[i]].own[1]]

Distinct(srcs) == Cardinality(Range(srcs)) = Len(srcs)

(***************************************************************************)
(* Operations. Each leaves pc, frames and out to the caller.               *)
(***************************************************************************)

(* let dst = Rc::new(<variant k>(v, srcs...)) *)
RcNewOp(dst, k, v, srcs) ==
    /\ ~fault
    /\ locals[dst].kind = "None" \/ dst \in Range(srcs)
    /\ Distinct(srcs)
    /\ \A i \in 1..Len(srcs) : Movable(srcs[i])
    /\ heap' = RcNew(heap, k, v, Handles(srcs))
    /\ locals' = MoveOut(dst, RcLocal(Len(heap) + 1), srcs)
    /\ UNCHANGED <<guards, fault, hooks>>

(* let dst = <variant k>(v, srcs...), held by value *)
LetStackOp(dst, k, v, srcs) ==
    /\ ~fault
    /\ locals[dst].kind = "None"
    /\ Distinct(srcs)
    /\ \A i \in 1..Len(srcs) : Movable(srcs[i])
    /\ locals' = MoveOut(dst, Local(k, v, Handles(srcs), "", ""), srcs)
    /\ UNCHANGED <<heap, guards, fault, hooks>>

(* let dst = Rc::clone(&src) *)
RcCloneOp(dst, src) ==
    /\ ~fault
    /\ locals[dst].kind = "None"
    /\ locals[src].kind = "Rc"
    /\ LET c == locals[src].own[1]
       IN  /\ heap' = RcClone(heap, c)
           /\ locals' = [locals EXCEPT ![dst] = RcLocal(c)]
    /\ UNCHANGED <<guards, fault, hooks>>

(* Seeded fault: the destructor runs twice for one value. *)
DropHookTwice(log, loc) ==
    IF loc.kind = "CustomSmartPointer" THEN log \o <<loc.data, loc.data>> ELSE log

(* impl Drop for CustomSmartPointer: prints the data of the value; values *)
(* of the other types have no destructor of their own.                    *)
DropHook(log, loc) ==
    IF loc.kind = "CustomSmartPointer" THEN Append(log, loc.data) ELSE log

(* v goes out of scope, or drop(v) *)
DropOp(v) ==
    /\ ~fault
    /\ locals[v].kind # "None"
    /\ ~Borrowed(v)
    /\ heap' = DropAll(heap, locals[v].own)
    /\ locals' = [locals EXCEPT ![v] = None]
    /\ hooks' = DropHook(hooks, locals[v])
    /\ UNCHANGED <<guards, fault>>

(* <cell reached from v by path>.borrow(): a Ref guard is outstanding *)
BorrowOp(v, path) ==
    /\ ~fault
    /\ locals[v].kind # "None"
    /\ LET c == Resolve(heap, locals[v], path)
       IN  /\ HasRefCell(heap[c].kind)
           /\ heap' = borrow(heap, c).heap
           /\ IF borrow(heap, c).ok
              THEN /\ guards' = Append(guards, [cell |-> c, excl |-> FALSE, via |-> v])
                   /\ UNCHANGED fault
              ELSE /\ fault' = TRUE
                   /\ UNCHANGED guards
    /\ UNCHANGED <<locals, hooks>>

(* <cell reached from v by path>.borrow_mut(): a RefMut guard is outstanding *)
BorrowMutOp(v, path) ==
    /\ ~fault
    /\ locals[v].kind # "None"
    /\ LET c == Resolve(heap, locals[v], path)
       IN  /\ HasRefCell(heap[c].kind)
           /\ heap' = borrow_mut(heap, c).heap
           /\ IF borrow_mut(heap, c).ok
              THEN /\ guards' = Append(guards, [cell |-> c, excl |-> TRUE, via |-> v])
                   /\ UNCHANGED fault
              ELSE /\ fault' = TRUE
                   /\ UNCHANGED guards
    /\ UNCHANGED <<locals, hooks>>

(* the g-th outstanding guard is dropped *)
ReleaseOp(g) ==
    /\ ~fault
    /\ g \in DOMAIN guards
    /\ LET c == guards[g].cell
       IN  heap' = [heap EXCEPT ![c].borrow_state = AfterRelease(@, guards[g].excl)]
    /\ guards' = Remove(guards, g)
    /\ UNCHANGED <<locals, fault, hooks>>

(* *g += n, g a RefMut<i32> *)
AddAssignOp(g, n) ==
    /\ ~fault
    /\ g \in DOMAIN guards
    /\ guards[g].excl
    /\ LET c == guards[g].cell
       IN  /\ heap[c].kind = "RefInt"
           /\ heap' = AddAssign(heap, c, n)
    /\ UNCHANGED <<locals, guards, fault, hooks>>

(* *g = src, g a RefMut<Rc<CycList>> *)
AssignSlotOp(g, src) ==
    /\ ~fault
    /\ g \in DOMAIN guards
    /\ guards[g].excl
    /\ Movable(src)
    /\ LET c == guards[g].cell
           old == heap[c].own[1]
       IN  /\ heap[c].kind = "CycCons"
           /\ heap' = AssignSlot(heap, c, locals[src].own[1])
    /\ locals' = [locals EXCEPT ![src] = None]
    /\ UNCHANGED <<guards, fault, hooks>>


(* let dst = <literal>: an i32, a closure, a CustomSmartPointer { data } *)
LetValOp(dst, k, v, d) ==
    /\ ~fault
    /\ locals[dst].kind = "None"
    /\ locals' = [locals EXCEPT ![dst] = Local(k, v, <<>>, d, "")]
    /\ UNCHANGED <<heap, guards, fault, hooks>>

(* let dst = &src *)
LetRefOp(dst, src) ==
    /\ ~fault
    /\ locals[dst].kind = "None"
    /\ locals[src].kind # "None"
    /\ locals' = [locals EXCEPT ![dst] = Local("Ref", 0, <<>>, "", src)]
    /\ UNCHANGED <<heap, guards, fault, hooks>>

(* MyBox::new(x) wraps x; Box::new(x) likewise. *)
MyBox_new(x) == Local("MyBox", x, <<>>, "", "")
Box_new(x) == Local("Box", x, <<>>, "", "")

(* Seeded fault: deref hands out a default value, not the field. *)
derefDefault(b) == 0

(* MyBox::deref: &self.0 *)
deref(b) == b.val

(* *v for a reference, a Box or a MyBox *)
Star(v) ==
    IF locals[v].kind = "Ref" THEN locals[locals[v].ref].val
    ELSE IF locals[v].kind = "MyBox" THEN deref(locals[v])
    ELSE locals[v].val

(* let dst = Box::new(src) / MyBox::new(src), src an i32 (Copy) *)
LetBoxOp(dst, k, src) ==
    /\ ~fault
    /\ locals[dst].kind = "None"
    /\ locals[src].kind = "i32"
    /\ locals' = [locals EXCEPT ![dst] =
                    IF k = "MyBox" THEN MyBox_new(locals[src].val)
                    ELSE Box_new(locals[src].val)]
    /\ UNCHANGED <<heap, guards, fault, hooks>>

(* assert_eq!(expected, *v): panics on a mismatch *)
AssertEqOp(expected, v) ==
    /\ ~fault
    /\ locals[v].kind # "None"
    /\ fault' = (expected # Star(v))
    /\ UNCHANGED <<heap, locals, guards, hooks>>

(***************************************************************************)
(* Specification Spec: an arbitrary client. It holds at most MaxLocals     *)
(* handles in named locals and at most MaxGuards guards, allocates at most *)
(* MaxCells cells, and issues any operation the compiler accepts.          *)
(***************************************************************************)
LocalNames == <<"h1", "h2", "h3", "h4", "h5">>
Slots == {LocalNames[i] : i \in 1..MaxLocals}
GuardSlots == 1..MaxGuards

ListKinds == {"Nil", "Cons"}
CycKinds == {"CycNil", "CycCons"}

Init ==
    /\ heap = <<>>
    /\ locals = [n \in Slots |-> None]
    /\ guards = <<>>
    /\ fault = FALSE
    /\ hooks = <<>>
    /\ pc = 0
    /\ frames = <<>>
    /\ out = <<>>

Target(v) == locals[v].own[1]

(* A new local takes the first unused name. *)
FirstFree(names, n, used(_)) ==
    {names[i] : i \in {j \in 1..n : ~used(names[j]) /\ \A k \in 1..(j - 1) : used(names[k])}}

LocalUsed(v) == locals[v].kind # "None"
NewLocal == FirstFree(LocalNames, MaxLocals, LocalUsed)

(* Rc::new(Nil), Rc::new(RefCell::new(5)) *)
ClientNewLeaf(dst, k) ==
    /\ Len(heap) < MaxCells
    /\ RcNewOp(dst, k, IF k = "RefInt" THEN 5 ELSE 0, <<>>)
    /\ UNCHANGED <<pc, frames, out>>

(* let src = Rc::new(Cons(v, src)), Rc::new(CycleCons(v, RefCell::new(src))): *)
(* the handle moves into the new node and the name is bound to the node.      *)
ClientNewCons(k, src) ==
    /\ Len(heap) < MaxCells
    /\ locals[src].kind = "Rc"
    /\ heap[Target(src)].kind \in (IF k = "Cons" THEN ListKinds ELSE CycKinds)
    /\ RcNewOp(src, k, 5, <<src>>)
    /\ UNCHANGED <<pc, frames, out>>

ClientClone(dst, src) ==
    /\ RcCloneOp(dst, src)
    /\ UNCHANGED <<pc, frames, out>>

ClientDrop(v) ==
    /\ DropOp(v)
    /\ UNCHANGED <<pc, frames, out>>

ClientBorrow(v) ==
    /\ Len(guards) < MaxGuards
    /\ locals[v].kind = "Rc"
    /\ BorrowOp(v, <<1>>)
    /\ UNCHANGED <<pc, frames, out>>

ClientBorrowMut(v) ==
    /\ Len(guards) < MaxGuards
    /\ locals[v].kind = "Rc"
    /\ BorrowMutOp(v, <<1>>)
    /\ UNCHANGED <<pc, frames, out>>

ClientRelease(g) ==
    /\ ReleaseOp(g)
    /\ UNCHANGED <<pc, frames, out>>

ClientAddAssign(g) ==
    /\ g \in DOMAIN guards
    /\ heap[guards[g].cell].val < MaxVal
    /\ AddAssignOp(g, 10)
    /\ UNCHANGED <<pc, frames, out>>

ClientAssignSlot(g, src) ==
    /\ locals[src].kind = "Rc"
    /\ heap[Target(src)].kind \in CycKinds
    /\ AssignSlotOp(g, src)
    /\ UNCHANGED <<pc, frames, out>>

Next ==
    \/ \E dst \in NewLocal, k \in {"Nil", "CycNil", "RefInt"} : ClientNewLeaf(dst, k)
    \/ \E src \in Slots, k \in {"Cons", "CycCons"} : ClientNewCons(k, src)
    \/ \E dst \in NewLocal, src \in Slots : ClientClone(dst, src)
    \/ \E v \in Slots : ClientDrop(v)
    \/ \E v \in Slots : ClientBorrow(v)
    \/ \E v \in Slots : ClientBorrowMut(v)
    \/ \E g \in GuardSlots : ClientRelease(g)
    \/ \E g \in GuardSlots : ClientAddAssign(g)
    \/ \E g \in GuardSlots, src \in Slots : ClientAssignSlot(g, src)

Spec == Init /\ [][Next]_vars


(***************************************************************************)
(* Specification MainSpec: the statements of main() and of the functions   *)
(* it calls, in program order. An instruction is one evaluation step of a  *)
(* statement; `line` is its line in main.rs. Temporaries are locals that   *)
(* are not declared in a scope (decl = FALSE): they are moved before the   *)
(* statement ends.                                                         *)
(***************************************************************************)
I(op, line) ==
    [op |-> op, line |-> line, dst |-> "", kind |-> "", val |-> 0, data |-> "",
     srcs |-> <<>>, src |-> "", path |-> <<>>, decl |-> FALSE, skip |-> 0]

IRcNew(line, dst, k, v, srcs, decl) ==
    [I("rc_new", line) EXCEPT !.dst = dst, !.kind = k, !.val = v, !.srcs = srcs, !.decl = decl]
ILetStack(line, dst, k, v, srcs) ==
    [I("let_stack", line) EXCEPT !.dst = dst, !.kind = k, !.val = v, !.srcs = srcs, !.decl = TRUE]
IClone(line, dst, src) == [I("rc_clone", line) EXCEPT !.dst = dst, !.src = src]
ILetVal(line, dst, k, v, d) ==
    [I("let_val", line) EXCEPT !.dst = dst, !.kind = k, !.val = v, !.data = d, !.decl = TRUE]
ILetRef(line, dst, src) == [I("let_ref", line) EXCEPT !.dst = dst, !.src = src, !.decl = TRUE]
ILetBox(line, dst, k, src) ==
    [I("let_box", line) EXCEPT !.dst = dst, !.kind = k, !.src = src, !.decl = TRUE]
IAssertEq(line, v, src) == [I("assert_eq", line) EXCEPT !.val = v, !.src = src]
IDrop(line, src) == [I("drop", line) EXCEPT !.src = src]
IBorrow(line, src, path) == [I("borrow", line) EXCEPT !.src = src, !.path = path]
IBorrowMut(line, src, path) == [I("borrow_mut", line) EXCEPT !.src = src, !.path = path]
IRelease(line) == I("release", line)
IAddAssign(line, n) == [I("add_assign", line) EXCEPT !.val = n]
IAssignSlot(line, src) == [I("assign_slot", line) EXCEPT !.src = src]
ICount(line, src) == [I("print_count", line) EXCEPT !.src = src]
IPrintList(line, src) == [I("print_list", line) EXCEPT !.src = src]
IPrintCell(line) == I("print_cell", line)
IPrintData(line, src) == [I("print_data", line) EXCEPT !.src = src]
IIfTail(line, src, skip) == [I("if_let_tail", line) EXCEPT !.src = src, !.skip = skip]
IEnter(line) == I("enter", line)
IExit(line) == I("exit", line)

deref_use ==
    << ILetVal(23, "deref_use.x", "i32", 5, ""),
       ILetRef(24, "deref_use.y", "deref_use.x"),
       IAssertEq(26, 5, "deref_use.y"),
       ILetBox(31, "deref_use.y_box", "Box", "deref_use.x"),
       IAssertEq(32, 5, "deref_use.y_box"),
       ILetBox(34, "deref_use.z_mybox", "MyBox", "deref_use.x"),
       IAssertEq(38, 5, "deref_use.z_mybox"),
       IExit(39) >>

use_rc_create_cons ==
    << ILetVal(90, "rc.strong_count", "Closure", 0, ""),
       IRcNew(92, "rc.t1", "Nil", 0, <<>>, FALSE),
       IRcNew(92, "rc.t2", "Cons", 10, <<"rc.t1">>, FALSE),
       IRcNew(92, "rc.a", "Cons", 5, <<"rc.t2">>, TRUE),
       ICount(93, "rc.a"),
       IClone(97, "rc.t3", "rc.a"),
       ILetStack(97, "rc.b", "Cons", 3, <<"rc.t3">>),
       ICount(99, "rc.a"),
       IEnter(100),
       IClone(103, "rc.t4", "rc.a"),
       ILetStack(103, "rc._c", "Cons", 4, <<"rc.t4">>),
       ICount(104, "rc.a"),
       IExit(105),
       ICount(107, "rc.a"),
       IPrintList(108, "rc.b"),
       IExit(109) >>

multi_owners_mutable_data ==
    << IRcNew(162, "mo.value", "RefInt", 5, <<>>, TRUE),
       IClone(163, "mo.t1", "mo.value"),
       IRcNew(163, "mo.t2", "MutNil", 0, <<>>, FALSE),
       IRcNew(163, "mo.a", "MutCons", 0, <<"mo.t1", "mo.t2">>, TRUE),
       IRcNew(165, "mo.t3", "RefInt", 6, <<>>, FALSE),
       IClone(165, "mo.t4", "mo.a"),
       ILetStack(165, "mo.b", "MutCons", 0, <<"mo.t3", "mo.t4">>),
       IRcNew(166, "mo.t5", "RefInt", 7, <<>>, FALSE),
       IClone(166, "mo.t6", "mo.a"),
       ILetStack(166, "mo.c", "MutCons", 0, <<"mo.t5", "mo.t6">>),
       IBorrowMut(170, "mo.value", <<1>>),
       IAddAssign(170, 10),
       IRelease(170),
       IBorrow(172, "mo.a", <<1, 1>>), IPrintCell(172), IRelease(172),
       IBorrow(173, "mo.b", <<1>>), IPrintCell(173), IRelease(173),
       IBorrow(173, "mo.b", <<2, 1>>), IPrintCell(173), IRelease(173),
       IBorrow(174, "mo.c", <<1>>), IPrintCell(174), IRelease(174),
       IBorrow(174, "mo.c", <<2, 1>>), IPrintCell(174), IRelease(174),
       IExit(176) >>

cycle_reference ==
    << ILetVal(183, "cyc.strong_count", "Closure", 0, ""),
       IRcNew(185, "cyc.t1", "CycNil", 0, <<>>, FALSE),
       IRcNew(185, "cyc.a", "CycCons", 5, <<"cyc.t1">>, TRUE),
       ICount(186, "cyc.a"),
       IBorrow(187, "cyc.a", <<1>>), IPrintCell(187), IRelease(187),
       IClone(189, "cyc.t2", "cyc.a"),
       IRcNew(189, "cyc.b", "CycCons", 10, <<"cyc.t2">>, TRUE),
       ICount(190, "cyc.a"),
       ICount(191, "cyc.b"),
       IBorrow(192, "cyc.b", <<1>>), IPrintCell(192),
       IBorrow(192, "cyc.b", <<1, 1>>), IPrintCell(192),
       IRelease(192), IRelease(192),
       IIfTail(194, "cyc.a", 4),
       IClone(195, "cyc.t3", "cyc.b"),
       IBorrowMut(195, "cyc.a", <<1>>),
       IAssignSlot(195, "cyc.t3"),
       IRelease(195),
       ICount(198, "cyc.b"),
       ICount(199, "cyc.a"),
       IExit(205) >>

Call(line, body) == <<IEnter(line)>> \o body

Program ==
    <<IEnter(207)>>
    \o Call(209, deref_use)
    \o << ILetVal(212, "main.a", "CustomSmartPointer", 0, "my stuff"),
          ILetVal(213, "main.b", "CustomSmartPointer", 0, "other stuff"),
          IDrop(219, "main.a"),
          IPrintData(220, "main.b") >>
    \o Call(224, use_rc_create_cons)
    \o Call(228, multi_owners_mutable_data)
    \o Call(232, cycle_reference)
    \o <<IExit(233)>>

MainLocals == {Program[i].dst : i \in DOMAIN Program} \ {""}

MainInit ==
    /\ heap = <<>>
    /\ locals = [n \in MainLocals |-> None]
    /\ guards = <<>>
    /\ fault = FALSE
    /\ hooks = <<>>
    /\ pc = 1
    /\ frames = <<>>
    /\ out = <<>>

Instr == Program[pc]
At(o) == pc \in DOMAIN Program /\ Program[pc].op = o
Advance == pc' = pc + 1
Top == frames[Len(frames)]

(* a `let` adds its name to the innermost scope *)
Declare ==
    frames' = IF Instr.decl
              THEN [frames EXCEPT ![Len(frames)] = Append(@, Instr.dst)]
              ELSE frames

Printed(line, vals, text) == [line |-> line, vals |-> vals, text |-> text]

(* Debug of a List held by value or behind a handle: the values up to Nil *)
RECURSIVE ListVals(_, _)
ListVals(h, c) ==
    IF h[c].kind = "Cons" THEN <<h[c].val>> \o ListVals(h, h[c].own[1]) ELSE <<>>

(* Debug of what a guard gives access to: the i32, or the node behind the *)
(* handle in the slot                                                     *)
CellVals(h, c) ==
    IF h[c].kind = "RefInt" THEN <<h[c].val>>
    ELSE IF h[h[c].own[1]].kind = "CycCons" THEN <<h[h[c].own[1]].val>>
    ELSE <<>>

MainRcNew ==
    /\ At("rc_new")
    /\ RcNewOp(Instr.dst, Instr.kind, Instr.val, Instr.srcs)
    /\ Declare /\ Advance /\ UNCHANGED out

MainLetStack ==
    /\ At("let_stack")
    /\ LetStackOp(Instr.dst, Instr.kind, Instr.val, Instr.srcs)
    /\ Declare /\ Advance /\ UNCHANGED out

MainClone ==
    /\ At("rc_clone")
    /\ RcCloneOp(Instr.dst, Instr.src)
    /\ Declare /\ Advance /\ UNCHANGED out

MainLetVal ==
    /\ At("let_val")
    /\ LetValOp(Instr.dst, Instr.kind, Instr.val, Instr.data)
    /\ Declare /\ Advance /\ UNCHANGED out

MainLetRef ==
    /\ At("let_ref")
    /\ LetRefOp(Instr.dst, Instr.src)
    /\ Declare /\ Advance /\ UNCHANGED out

MainLetBox ==
    /\ At("let_box")
    /\ LetBoxOp(Instr.dst, Instr.kind, Instr.src)
    /\ Declare /\ Advance /\ UNCHANGED out

MainAssertEq ==
    /\ At("assert_eq")
    /\ AssertEqOp(Instr.val, Instr.src)
    /\ Advance /\ UNCHANGED <<frames, out>>

(* drop(a): a is moved into drop and dropped there *)
MainDrop ==
    /\ At("drop")
    /\ DropOp(Instr.src)
    /\ Advance /\ UNCHANGED <<frames, out>>

MainBorrow ==
    /\ At("borrow")
    /\ BorrowOp(Instr.src, Instr.path)
    /\ Advance /\ UNCHANGED <<frames, out>>

MainBorrowMut ==
    /\ At("borrow_mut")
    /\ BorrowMutOp(Instr.src, Instr.path)
    /\ Advance /\ UNCHANGED <<frames, out>>

(* the temporary guard of the statement is dropped: the last one taken *)
MainRelease ==
    /\ At("release")
    /\ ReleaseOp(Len(guards))
    /\ Advance /\ UNCHANGED <<frames, out>>

MainAddAssign ==
    /\ At("add_assign")
    /\ AddAssignOp(Len(guards), Instr.val)
    /\ Advance /\ UNCHANGED <<frames, out>>

MainAssignSlot ==
    /\ At("assign_slot")
    /\ AssignSlotOp(Len(guards), Instr.src)
    /\ Advance /\ UNCHANGED <<frames, out>>

(* println!(.., strong_count(&a)) *)
MainPrintCount ==
    /\ At("print_count")
    /\ ~fault
    /\ out' = Append(out, Printed(Instr.line, <<heap[Target(Instr.src)].strong_count>>, ""))
    /\ Advance /\ UNCHANGED <<heap, locals, guards, fault, hooks, frames>>

(* println!("b = {:?}", b), b a List held by value *)
MainPrintList ==
    /\ At("print_list")
    /\ ~fault
    /\ out' = Append(out, Printed(Instr.line,
                  <<locals[Instr.src].val>> \o ListVals(heap, Target(Instr.src)), ""))
    /\ Advance /\ UNCHANGED <<heap, locals, guards, fault, hooks, frames>>

MainPrintCell ==
    /\ At("print_cell")
    /\ ~fault
    /\ guards # <<>>
    /\ out' = Append(out, Printed(Instr.line, CellVals(heap, guards[Len(guards)].cell), ""))
    /\ Advance /\ UNCHANGED <<heap, locals, guards, fault, hooks, frames>>

MainPrintData ==
    /\ At("print_data")
    /\ ~fault
    /\ out' = Append(out, Printed(Instr.line, <<>>, locals[Instr.src].data))
    /\ Advance /\ UNCHANGED <<heap, locals, guards, fault, hooks, frames>>

(* if let Some(link) = a.tail() { .. } *)
MainIfTail ==
    /\ At("if_let_tail")
    /\ ~fault
    /\ pc' = IF tail(heap, Target(Instr.src)) # NoCell THEN pc + 1 ELSE pc + 1 + Instr.skip
    /\ UNCHANGED <<heap, locals, guards, fault, hooks, frames, out>>

(* `{` or a call: a new innermost scope *)
MainEnter ==
    /\ At("enter")
    /\ ~fault
    /\ frames' = Append(frames, <<>>)
    /\ Advance /\ UNCHANGED <<heap, locals, guards, fault, hooks, out>>

(* `}`: the locals of the scope that still own their value are dropped, *)
(* the last declared first                                              *)
Live(names) == SelectSeq(names, LAMBDA n : locals[n].kind # "None")

(* Seeded fault: the locals of a scope are dropped in declaration order. *)
FirstDeclared(names) == names[1]

LastDeclared(names) == names[Len(names)]

MainScopeDrop ==
    /\ At("exit")
    /\ Live(Top) # <<>>
    /\ LET v == LastDeclared(Live(Top))
       IN  /\ DropOp(v)
           /\ frames' = [frames EXCEPT ![Len(frames)] =
                            SelectSeq(Live(Top), LAMBDA n : n # v)]
    /\ UNCHANGED <<pc, out>>

MainScopeEnd ==
    /\ At("exit")
    /\ ~fault
    /\ Live(Top) = <<>>
    /\ frames' = SubSeq(frames, 1, Len(frames) - 1)
    /\ Advance /\ UNCHANGED <<heap, locals, guards, fault, hooks, out>>

MainNext ==
    \/ MainRcNew \/ MainLetStack \/ MainClone
    \/ MainLetVal \/ MainLetRef \/ MainLetBox \/ MainAssertEq
    \/ MainDrop
    \/ MainBorrow \/ MainBorrowMut \/ MainRelease
    \/ MainAddAssign \/ MainAssignSlot
    \/ MainPrintCount \/ MainPrintList \/ MainPrintCell \/ MainPrintData
    \/ MainIfTail
    \/ MainEnter \/ MainScopeDrop \/ MainScopeEnd

MainSpec == MainInit /\ [][MainNext]_vars

(* ====================================================================== *)
(* deref_use (l.22-39) for any i32 in place of the literal 5: x is bound  *)
(* once, the reference and the two boxes are made from it in any order,   *)
(* and assert_eq!(x, *v) may run on any of them at any time.  pc counts   *)
(* the statements executed.                                               *)
(* ====================================================================== *)
MaxInt == 2
MaxStmts == 6

BoxValues == (0 - MaxInt)..MaxInt
BoxLocals == {"deref_use.x", "deref_use.y", "deref_use.y_box", "deref_use.z_mybox"}
Pointers == BoxLocals \ {"deref_use.x"}

BoxInit ==
    /\ heap = <<>>
    /\ locals = [v \in BoxLocals |-> None]
    /\ guards = <<>>
    /\ fault = FALSE
    /\ hooks = <<>>
    /\ pc = 0
    /\ frames = << <<>> >>
    /\ out = <<>>

(* let x = v; *)
BoxLetX(v) ==
    /\ LetValOp("deref_use.x", "i32", v, "")
    /\ pc' = pc + 1
    /\ UNCHANGED <<frames, out>>

(* let y = &x; *)
BoxLetRef ==
    /\ LetRefOp("deref_use.y", "deref_use.x")
    /\ pc' = pc + 1
    /\ UNCHANGED <<frames, out>>

(* let y_box = Box::new(x); *)
BoxLetBox ==
    /\ LetBoxOp("deref_use.y_box", "Box", "deref_use.x")
    /\ pc' = pc + 1
    /\ UNCHANGED <<frames, out>>

(* let z_mybox = MyBox::new(x); *)
BoxLetMyBox ==
    /\ LetBoxOp("deref_use.z_mybox", "MyBox", "deref_use.x")
    /\ pc' = pc + 1
    /\ UNCHANGED <<frames, out>>

(* assert_eq!(x, *v); *)
BoxAssertEq(v) ==
    /\ pc < MaxStmts
    /\ locals["deref_use.x"].kind = "i32"
    /\ AssertEqOp(locals["deref_use.x"].val, v)
    /\ pc' = pc + 1
    /\ UNCHANGED <<frames, out>>

BoxNext ==
    \/ \E v \in BoxValues : BoxLetX(v)
    \/ BoxLetRef \/ BoxLetBox \/ BoxLetMyBox
    \/ \E v \in Pointers : BoxAssertEq(v)

BoxSpec == BoxInit /\ [][BoxNext]_vars

(* ====================================================================== *)
(* A client that declares values with a destructor in nested scopes, as   *)
(* main does with a and b (l.212-220): it may drop(v) any of them early   *)
(* and leave its scopes one by one.  pc is 0 inside the innermost scope   *)
(* and 1 while that scope is being left.                                  *)
(* ====================================================================== *)
MaxHooked == 3
MaxDepth == 2

HookNames == <<"v1", "v2", "v3", "v4", "v5">>
HookData == <<"d1", "d2", "d3", "d4", "d5">>
HookLocals == {HookNames[i] : i \in 1..MaxHooked}

HookInit ==
    /\ heap = <<>>
    /\ locals = [v \in HookLocals |-> None]
    /\ guards = <<>>
    /\ fault = FALSE
    /\ hooks = <<>>
    /\ pc = 0
    /\ frames = << <<>> >>
    /\ out = <<>>

(* the values are numbered in the order of their declarations *)
Fresh(i) == locals[HookNames[i]].kind = "None" /\ HookData[i] \notin Range(hooks)
NextFresh == CHOOSE i \in 1..MaxHooked : Fresh(i) /\ \A j \in 1..(i - 1) : ~Fresh(j)

(* let v = CustomSmartPointer { data: String::from(d) }; *)
HookLet ==
    /\ pc = 0 /\ frames # <<>>
    /\ \E i \in 1..MaxHooked : Fresh(i)
    /\ LetValOp(HookNames[NextFresh], "CustomSmartPointer", 0, HookData[NextFresh])
    /\ frames' = [frames EXCEPT ![Len(frames)] = Append(@, HookNames[NextFresh])]
    /\ UNCHANGED <<pc, out>>

(* drop(v); *)
HookDrop(v) ==
    /\ pc = 0 /\ frames # <<>>
    /\ DropOp(v)
    /\ UNCHANGED <<pc, frames, out>>

(* { *)
HookEnter ==
    /\ pc = 0 /\ frames # <<>>
    /\ ~fault
    /\ Len(frames) < MaxDepth
    /\ frames' = Append(frames, <<>>)
    /\ UNCHANGED <<heap, locals, guards, fault, hooks, pc, out>>

(* } is reached *)
HookLeave ==
    /\ pc = 0 /\ frames # <<>>
    /\ ~fault
    /\ pc' = 1
    /\ UNCHANGED <<heap, locals, guards, fault, hooks, frames, out>>

(* }: the locals of the scope that still own their value are dropped, *)
(* the last declared first                                            *)
HookScopeDrop ==
    /\ pc = 1
    /\ Live(Top) # <<>>
    /\ LET v == LastDeclared(Live(Top))
       IN  /\ DropOp(v)
           /\ frames' = [frames EXCEPT ![Len(frames)] =
                            SelectSeq(Live(Top), LAMBDA n : n # v)]
    /\ UNCHANGED <<pc, out>>

HookScopeEnd ==
    /\ pc = 1
    /\ ~fault
    /\ Live(Top) = <<>>
    /\ frames' = SubSeq(frames, 1, Len(frames) - 1)
    /\ pc' = 0
    /\ UNCHANGED <<heap, locals, guards, fault, hooks, out>>

HookNext ==
    \/ HookLet
    \/ \E v \in HookLocals : HookDrop(v)
    \/ HookEnter \/ HookLeave
    \/ HookScopeDrop \/ HookScopeEnd

HookSpec == HookInit /\ [][HookNext]_vars


(***************************************************************************)
(* Properties.                                                             *)
(***************************************************************************)
RECURSIVE Sum(_, _)
Sum(f, S) ==
    IF S = {} THEN 0
    ELSE LET x == CHOOSE y \in S : TRUE IN f[x] + Sum(f, S \ {x})

CountIn(hs, c) == Cardinality({i \in DOMAIN hs : hs[i] = c})

(* Handles to c held by locals and by the payloads of cells. *)
HeldByLocals(c) == Sum([n \in DOMAIN locals |-> CountIn(locals[n].own, c)], DOMAIN locals)
HeldByPayloads(c) == Sum([d \in DOMAIN heap |-> CountIn(heap[d].own, c)], DOMAIN heap)
Held(c) == HeldByLocals(c) + HeldByPayloads(c)

(* C1: Rc::new yields a cell whose strong_count is 1 and changes no other  *)
(* count; a clone of a handle to a cell raises that cell's count by        *)
(* exactly 1; a drop of a handle to a cell (a local going away, or the     *)
(* handle a slot held being overwritten) lowers that cell's count by       *)
(* exactly 1.                                                              *)
C1_NewStep ==
    Len(heap') = Len(heap) + 1 =>
        /\ heap'[Len(heap')].strong_count = 1
        /\ \A c \in DOMAIN heap : heap'[c].strong_count = heap[c].strong_count

C1_CloneStep ==
    \A dst \in Slots, src \in Slots :
        ClientClone(dst, src) =>
            /\ heap'[Target(src)].strong_count = heap[Target(src)].strong_count + 1
            /\ \A c \in DOMAIN heap \ {Target(src)} :
                   heap'[c].strong_count = heap[c].strong_count

C1_DropStep ==
    /\ \A v \in Slots :
           ClientDrop(v) =>
               heap'[Target(v)].strong_count = heap[Target(v)].strong_count - 1
    /\ \A g \in GuardSlots, src \in Slots :
           ClientAssignSlot(g, src) =>
               LET old == heap[guards[g].cell].own[1]
               IN  heap'[old].strong_count = heap[old].strong_count - 1

C1_CountByOne == [][C1_NewStep /\ C1_CloneStep /\ C1_DropStep]_vars

(* a cell made by new and then dropped, beside a cell made by new and cloned *)
C1_Witness ==
    \E c, d \in DOMAIN heap :
        /\ heap[c].strong_count = 2
        /\ heap[d].destroyed = 1

(* C2: the strong_count of every cell is the number of handles to it that  *)
(* are held by locals or stored in the payloads of cells still alive.      *)
C2_CountIsHandles == \A c \in DOMAIN heap : heap[c].strong_count = Held(c)

(* a cell with one handle in a local and one in the slot of a live node *)
C2_Witness ==
    \E c \in DOMAIN heap :
        /\ heap[c].strong_count = 2
        /\ HeldByLocals(c) = 1
        /\ HeldByPayloads(c) = 1

(* C3: a payload is destroyed in exactly the steps that take its count     *)
(* from 1 to 0, so at most once, and never while its count is positive.    *)
C3_Inv ==
    \A c \in DOMAIN heap :
        /\ heap[c].destroyed \in {0, 1}
        /\ heap[c].destroyed = 1 <=> heap[c].strong_count = 0

C3_Step ==
    \A c \in DOMAIN heap :
        (heap'[c].destroyed # heap[c].destroyed)
            <=> (heap[c].strong_count = 1 /\ heap'[c].strong_count = 0)

C3_DestroyedAtZeroOnce == [](C3_Inv) /\ [][C3_Step]_vars

(* one drop took a node and, through it, its successor to zero *)
C3_Witness ==
    \E c, d \in DOMAIN heap :
        /\ c # d
        /\ heap[c].destroyed = 1 /\ heap[c].kind \in {"Cons", "CycCons"}
        /\ heap[d].destroyed = 1


SharedGuards(c) == {g \in DOMAIN guards : guards[g].cell = c /\ ~guards[g].excl}
ExclusiveGuards(c) == {g \in DOMAIN guards : guards[g].cell = c /\ guards[g].excl}

(* C4: on every RefCell there is at most one outstanding exclusive guard,  *)
(* and never an exclusive guard together with a shared one; the flag is    *)
(* ExclusiveBorrowed exactly while the exclusive guard is out and counts   *)
(* the shared guards otherwise.                                            *)
C4_ExclusiveXorShared ==
    \A c \in DOMAIN heap :
        /\ Cardinality(ExclusiveGuards(c)) <= 1
        /\ ~(ExclusiveGuards(c) # {} /\ SharedGuards(c) # {})
        /\ IF ExclusiveGuards(c) # {}
           THEN heap[c].borrow_state = ExclusiveBorrowed
           ELSE heap[c].borrow_state = Cardinality(SharedGuards(c))

(* an exclusive guard on one cell while a shared guard is out on another *)
C4_Witness ==
    \E c, d \in DOMAIN heap :
        /\ c # d
        /\ ExclusiveGuards(c) # {}
        /\ SharedGuards(d) # {}

(* C5: borrow_mut succeeds, and leaves the cell ExclusiveBorrowed, iff the *)
(* cell was Unborrowed, and faults otherwise; borrow succeeds, and counts  *)
(* one more shared guard, iff no exclusive guard is outstanding, and       *)
(* faults otherwise; so a second borrow beside a first succeeds.           *)
C5_BorrowMutStep ==
    \A v \in Slots :
        ClientBorrowMut(v) =>
            LET c == Target(v)
            IN  IF heap[c].borrow_state = Unborrowed
                THEN /\ ~fault'
                     /\ heap'[c].borrow_state = ExclusiveBorrowed
                     /\ guards' = Append(guards, [cell |-> c, excl |-> TRUE, via |-> v])
                ELSE fault'

C5_BorrowStep ==
    \A v \in Slots :
        ClientBorrow(v) =>
            LET c == Target(v)
            IN  IF heap[c].borrow_state >= Unborrowed
                THEN /\ ~fault'
                     /\ heap'[c].borrow_state = heap[c].borrow_state + 1
                     /\ guards' = Append(guards, [cell |-> c, excl |-> FALSE, via |-> v])
                ELSE fault'

C5_BorrowOutcome == [][C5_BorrowMutStep /\ C5_BorrowStep]_vars

(* a request was refused while a shared guard was outstanding *)
C5_Witness ==
    /\ fault
    /\ \E c \in DOMAIN heap : SharedGuards(c) # {}

(* C6: the step that faults changes neither the heap (so neither the value *)
(* nor the borrow_state of the cell) nor the locals nor the guards, and no *)
(* step is taken from a faulted state.                                     *)
C6_FaultStep ==
    /\ ~fault
    /\ fault' => (heap' = heap /\ locals' = locals /\ guards' = guards)

IsLive(v) == locals[v].kind # "None"
Done == pc = Len(Program) + 1

(* what the println! at a line wrote, if it has run *)
PrintedAt(line, vals) == \A i \in DOMAIN out : out[i].line = line => out[i].vals = vals
HasPrinted(line) == \E i \in DOMAIN out : out[i].line = line

(* the nodes of cycle_reference: a carries 5, b carries 10 *)
NodeA == {c \in DOMAIN heap : heap[c].kind = "CycCons" /\ heap[c].val = 5}
NodeB == {c \in DOMAIN heap : heap[c].kind = "CycCons" /\ heap[c].val = 10}

(* b is built and a's slot still holds the handle to Nil *)
BeforeRewrite ==
    /\ IsLive("cyc.a") /\ IsLive("cyc.b") /\ ~IsLive("cyc.t3")
    /\ heap[heap[Target("cyc.a")].own[1]].kind = "CycNil"

(* a's slot holds a handle to b, b's slot a handle to a *)
CycleFormed ==
    \E a \in NodeA, b \in NodeB : heap[a].own = <<b>> /\ heap[b].own = <<a>>

(* C7: with a = Cons(5, Nil) and b = Cons(10, clone(a)) built, the count   *)
(* of a is 2 and the count of b is 1; once a's slot has been rewritten     *)
(* through borrow_mut to clone(b), the count of b is 2 and the count of a  *)
(* is still 2; these are the counts main prints.                           *)
C7_CycleScenarioCounts ==
    /\ BeforeRewrite =>
           /\ Target("cyc.a") \in NodeA /\ Target("cyc.b") \in NodeB
           /\ heap[Target("cyc.b")].own = <<Target("cyc.a")>>
           /\ heap[Target("cyc.a")].strong_count = 2
           /\ heap[Target("cyc.b")].strong_count = 1
    /\ (CycleFormed /\ IsLive("cyc.a") /\ IsLive("cyc.b")) =>
           /\ heap[Target("cyc.a")].own = <<Target("cyc.b")>>
           /\ heap[Target("cyc.b")].strong_count = 2
           /\ heap[Target("cyc.a")].strong_count = 2
    /\ PrintedAt(190, <<2>>) /\ PrintedAt(191, <<1>>)
    /\ PrintedAt(198, <<2>>) /\ PrintedAt(199, <<2>>)

(* both counts have been printed after the rewrite, a and b still in scope *)
C7_Witness == HasPrinted(199) /\ CycleFormed /\ IsLive("cyc.a") /\ IsLive("cyc.b")

(* C8 as stated: once the cycle is formed both counts are at least 2 in    *)
(* every later state, also after cycle_reference has returned.             *)
C8_AtLeastTwoForever ==
    \A a \in NodeA, b \in NodeB :
        (heap[a].own = <<b>> /\ heap[b].own = <<a>>) =>
            heap[a].strong_count >= 2 /\ heap[b].strong_count >= 2

(* C8 amended: once the cycle is formed, the count of each node is 1 (the  *)
(* handle in the other node's slot) plus the handles to it that locals     *)
(* hold: 2 for both while a and b are in scope, 1 for both, and never 0,   *)
(* once cycle_reference has dropped them.                                  *)
C8_AtLeastTwoWhileInScope ==
    \A a \in NodeA, b \in NodeB :
        (heap[a].own = <<b>> /\ heap[b].own = <<a>>) =>
            /\ heap[a].strong_count = 1 + HeldByLocals(a)
            /\ heap[b].strong_count = 1 + HeldByLocals(b)
            /\ (IsLive("cyc.a") /\ IsLive("cyc.b")) =>
                   heap[a].strong_count >= 2 /\ heap[b].strong_count >= 2
            /\ (~IsLive("cyc.a") /\ ~IsLive("cyc.b")) =>
                   heap[a].strong_count = 1 /\ heap[b].strong_count = 1

(* cycle_reference has returned and main has ended: the cycle is still there *)
C8_Witness == Done /\ CycleFormed /\ ~IsLive("cyc.a") /\ ~IsLive("cyc.b")


(* cells reached from the cells of S by following the handles payloads own *)
RECURSIVE Reach(_, _)
Reach(h, S) ==
    LET T == S \cup UNION {Range(h[c].own) : c \in S}
    IN  IF T = S THEN S ELSE Reach(h, T)

(* c is a node of a reference cycle *)
InCycle(h, c) == c \in Reach(h, Range(h[c].own))

(* C9: a node of a reference cycle has a positive count and a payload that *)
(* has not been destroyed, and every step leaves it a node of a cycle with *)
(* a positive count and its payload intact, also the steps that drop the   *)
(* last handles held outside the cycle; no step faults.                    *)
C9_Inv ==
    \A c \in DOMAIN heap :
        InCycle(heap, c) =>
            heap[c].strong_count > 0 /\ heap[c].destroyed = 0 /\ ~fault

C9_Step ==
    \A c \in DOMAIN heap :
        InCycle(heap, c) =>
            /\ InCycle(heap', c)
            /\ heap'[c].strong_count > 0
            /\ heap'[c].destroyed = 0
            /\ ~fault'

OverA == {"rc.t3", "rc.b", "rc.t4", "rc._c"}

(* C10: while a is in scope, its count is 1 plus the number of lists built *)
(* as Cons(x, clone(a)) that are still alive, each of them holds a handle  *)
(* to the very cell of a, and building them allocates nothing: the counts  *)
(* printed are 1, 2, 3 and, after _c is dropped, 2; after b is dropped too *)
(* the count is 1 again.                                                   *)
C10_SharedTail ==
    /\ IsLive("rc.a") =>
           /\ heap[Target("rc.a")].strong_count
                  = 1 + Cardinality({v \in OverA : IsLive(v)})
           /\ \A v \in OverA : IsLive(v) => locals[v].own = <<Target("rc.a")>>
           /\ Len(heap) = 3
    /\ PrintedAt(93, <<1>>) /\ PrintedAt(99, <<2>>)
    /\ PrintedAt(104, <<3>>) /\ PrintedAt(107, <<2>>)
    /\ PrintedAt(108, <<3, 5, 10>>)

(* b and _c have been built and dropped, a is still in scope with count 1 *)
C10_Witness ==
    /\ IsLive("rc.a")
    /\ HasPrinted(108)
    /\ \A v \in OverA : ~IsLive(v)
    /\ heap[Target("rc.a")].strong_count = 1

(* ---------------------------------------------------------------------- *)
(* Destructors of the values of a scope (HookSpec)                        *)
(* ---------------------------------------------------------------------- *)
DeclIndex(v) == CHOOSE i \in 1..Len(HookNames) : HookNames[i] = v
Occurrences(log, d) == Cardinality({i \in 1..Len(log) : log[i] = d})

(* C11: when a scope is left, each destructor that runs is the one of the *)
(* value declared last among the values the scope still owns, so the      *)
(* values leaving together are finalized in reverse order of declaration; *)
(* drop(v) runs the destructor of v in the step of the call itself, while *)
(* the scope stays open, not when the scope is left.                      *)
C11_ExitStep ==
    (pc = 1 /\ hooks' # hooks) =>
        \E v \in Range(Top) :
            /\ IsLive(v)
            /\ hooks' = Append(hooks, locals[v].data)
            /\ locals'[v] = None
            /\ \A w \in Range(Top) \ {v} : IsLive(w) => DeclIndex(w) < DeclIndex(v)

C11_EarlyStep ==
    \A v \in HookLocals :
        HookDrop(v) => /\ hooks' = Append(hooks, locals[v].data)
                       /\ locals'[v] = None
                       /\ pc' = 0 /\ frames' = frames

C11_ReverseOrderOfDeclaration == [][C11_ExitStep /\ C11_EarlyStep]_vars

(* v2 was dropped early; v3 and v1 then left the scope together *)
C11_Witness == frames = <<>> /\ hooks = <<"d2", "d3", "d1">>

(* C12: no destructor runs twice and none runs for a value still owned;   *)
(* a value stops being owned exactly in a step that runs its destructor   *)
(* once, and a scope ends only when none of its values is still owned, so *)
(* a value dropped early is not finalized again at the end of the scope.  *)
C12_Inv ==
    /\ \A i \in 1..Len(HookData) : Occurrences(hooks, HookData[i]) <= 1
    /\ \A v \in HookLocals : IsLive(v) => locals[v].data \notin Range(hooks)

C12_Step ==
    /\ \A v \in HookLocals :
           (IsLive(v) /\ locals'[v] = None) => hooks' = Append(hooks, locals[v].data)
    /\ hooks' # hooks =>
           \E v \in HookLocals : /\ IsLive(v) /\ locals'[v] = None
                                 /\ \A w \in HookLocals \ {v} : locals'[w] = locals[w]
    /\ Len(frames') < Len(frames) => \A v \in Range(Top) : ~IsLive(v)

C12_HookExactlyOnce == [](C12_Inv) /\ [][C12_Step]_vars

(* as in main: the first value dropped early, the second at the end *)
C12_Witness == frames = <<>> /\ hooks = <<"d1", "d2">>

(* ---------------------------------------------------------------------- *)
(* Shared borrows (Spec)                                                  *)
(* ---------------------------------------------------------------------- *)
(* C13: a granted borrow changes nothing in the heap but the flag of its  *)
(* cell, which it raises by one; dropping the Ref lowers that flag by one *)
(* and changes nothing else; and a cell with no guard outstanding is      *)
(* Unborrowed.  So borrow/release cycles, however many, leave the cell    *)
(* Unborrowed and its value as it was.                                    *)
C13_BorrowStep ==
    \A v \in Slots :
        (ClientBorrow(v) /\ ~fault') =>
            heap' = [heap EXCEPT ![Target(v)].borrow_state = @ + 1]

C13_ReleaseStep ==
    \A g \in GuardSlots :
        (ClientRelease(g) /\ ~guards[g].excl) =>
            LET c == guards[g].cell
            IN  /\ heap' = [heap EXCEPT ![c].borrow_state = @ - 1]
                /\ SharedGuards(c) = {g} => heap'[c].borrow_state = Unborrowed

C13_Idle ==
    \A c \in DOMAIN heap :
        (SharedGuards(c) = {} /\ ExclusiveGuards(c) = {}) =>
            heap[c].borrow_state = Unborrowed

C13_BorrowReleaseCycles == [](C13_Idle) /\ [][C13_BorrowStep /\ C13_ReleaseStep]_vars

(* two borrows overlap on a cell mutated before them *)
C13_Witness ==
    \E c \in DOMAIN heap :
        /\ heap[c].val = 15
        /\ Cardinality(SharedGuards(c)) = 2
        /\ heap[c].borrow_state = 2

(* ---------------------------------------------------------------------- *)
(* No dangling handle (Spec)                                              *)
(* ---------------------------------------------------------------------- *)
(* C14: the cell behind every handle owned by a local, behind every       *)
(* handle stored in a payload that has not been destroyed, and behind     *)
(* every outstanding guard has a payload that has not been destroyed.     *)
C14_NoDanglingHandle ==
    /\ \A v \in DOMAIN locals :
           \A i \in 1..Len(locals[v].own) : heap[locals[v].own[i]].destroyed = 0
    /\ \A c \in DOMAIN heap :
           heap[c].destroyed = 0 =>
               \A i \in 1..Len(heap[c].own) : heap[heap[c].own[i]].destroyed = 0
    /\ \A g \in DOMAIN guards : heap[guards[g].cell].destroyed = 0

(* a node is read through one of its two handles while its payload holds *)
(* the only handle of its successor                                      *)
C14_Witness ==
    \E c \in DOMAIN heap :
        /\ heap[c].kind = "CycCons" /\ heap[c].destroyed = 0
        /\ heap[c].strong_count = 2
        /\ SharedGuards(c) # {}
        /\ heap[heap[c].own[1]].strong_count = 1
        /\ heap[heap[c].own[1]].destroyed = 0

(* ---------------------------------------------------------------------- *)
(* Cascading drop (Spec)                                                  *)
(* ---------------------------------------------------------------------- *)
(* C15: in a drop of a local, the cells whose payload is destroyed are    *)
(* exactly those that lose their last handle; each cell loses one count   *)
(* for the handle of the local and one for each handle held by a payload  *)
(* destroyed in the step, so the cascade runs on through every node left  *)
(* without a handle; a cell that keeps another handle loses exactly one   *)
(* count or none, and nothing else of it changes.                         *)
C15_DropStep ==
    \A v \in Slots :
        ClientDrop(v) =>
            LET Gone == {c \in DOMAIN heap :
                            heap[c].destroyed = 0 /\ heap'[c].destroyed = 1}
                Lost(c) == CountIn(locals[v].own, c)
                           + Sum([d \in DOMAIN heap |->
                                    IF d \in Gone THEN CountIn(heap[d].own, c) ELSE 0],
                                 DOMAIN heap)
            IN  \A c \in DOMAIN heap :
                    /\ heap'[c].strong_count = heap[c].strong_count - Lost(c)
                    /\ c \in Gone <=> (heap[c].strong_count > 0 /\ heap'[c].strong_count = 0)
                    /\ c \notin Gone =>
                           /\ Lost(c) <= 1
                           /\ heap'[c] = [heap[c] EXCEPT !.strong_count = @ - Lost(c)]

C15_CascadingDrop == [][C15_DropStep]_vars

(* the node was destroyed; the cascade stopped at its successor, which *)
(* another handle keeps alive                                          *)
C15_Witness ==
    \E c, d \in DOMAIN heap :
        /\ heap[c].kind = "Cons" /\ heap[c].destroyed = 1
        /\ heap[d].kind = "Nil" /\ heap[d].destroyed = 0
        /\ heap[d].strong_count = 1

(* ---------------------------------------------------------------------- *)
(* Walking the cycle (MainSpec)                                           *)
(* ---------------------------------------------------------------------- *)
(* C16: once the rewrite of a's slot has run, the cells reached from a or *)
(* from b by following the links are a and b alone, each of them a Cons   *)
(* node whose link leads to the other, so no Nil is among them and a walk *)
(* that goes on until Nil has not ended after any number of links.        *)
C16_WalkNeverReachesNil ==
    HasPrinted(198) =>
        /\ NodeA # {} /\ NodeB # {}
        /\ \A s \in NodeA \cup NodeB :
               /\ Reach(heap, {s}) = NodeA \cup NodeB
               /\ \A c \in Reach(heap, {s}) :
                      /\ heap[c].kind = "CycCons" /\ heap[c].destroyed = 0
                      /\ tail(heap, c) # NoCell
                      /\ heap[tail(heap, c)].own[1] \in Reach(heap, {s})
               /\ \A n \in 0..MaxWalk :
                      /\ Walk(heap, s, n) # NoCell
                      /\ heap[Walk(heap, s, n)].kind # "CycNil"

(* two links from a lead through b back to a *)
C16_Witness ==
    /\ HasPrinted(198)
    /\ \E a \in NodeA : Walk(heap, a, 1) \in NodeB /\ Walk(heap, a, 2) = a

(* ---------------------------------------------------------------------- *)
(* Mutation seen through every handle (MainSpec)                          *)
(* ---------------------------------------------------------------------- *)
AddAssignAt == CHOOSE i \in DOMAIN Program : Program[i].op = "add_assign"
Mutated == pc > AddAssignAt /\ IsLive("mo.c")
PrintedIn(lo, hi) == SelectSeq(out, LAMBDA e : lo <= e.line /\ e.line <= hi)

(* C17: `*value.borrow_mut() += 10` changes the value of the cell of      *)
(* value from 5 to 15 and nothing else in the heap, so no other value and *)
(* no strong_count; from then on the first element of a and the second of *)
(* b and of c are that very cell and read 15, the first elements of b and *)
(* c still read 6 and 7, and these are the values main prints.            *)
C17_Step ==
    MainAddAssign =>
        LET c == Target("mo.value")
        IN  /\ guards[Len(guards)].cell = c
            /\ heap[c].val = 5
            /\ heap' = [heap EXCEPT ![c].val = 15]
            /\ locals' = locals

C17_Inv ==
    /\ Mutated =>
           LET c == Target("mo.value")
           IN  /\ heap[c].val = 15
               /\ Resolve(heap, locals["mo.a"], <<1, 1>>) = c
               /\ Resolve(heap, locals["mo.b"], <<2, 1>>) = c
               /\ Resolve(heap, locals["mo.c"], <<2, 1>>) = c
               /\ heap[Resolve(heap, locals["mo.b"], <<1>>)].val = 6
               /\ heap[Resolve(heap, locals["mo.c"], <<1>>)].val = 7
               /\ heap[c].strong_count = 2
               /\ heap[Target("mo.a")].strong_count = 3
    /\ (Mutated /\ pc > AddAssignAt + 16) =>
           [i \in 1..5 |-> PrintedIn(172, 174)[i].vals] = << <<15>>, <<6>>, <<15>>, <<7>>, <<15>> >>

C17_MutationSeenByAll == [](C17_Inv) /\ [][C17_Step]_vars

(* all three lists have been printed after the mutation *)
C17_Witness ==
    /\ Mutated
    /\ Len(PrintedIn(172, 174)) = 5
    /\ heap[Resolve(heap, locals["mo.c"], <<2, 1>>)].val = 15

(* ---------------------------------------------------------------------- *)
(* No borrow fault in main (MainSpec)                                     *)
(* ---------------------------------------------------------------------- *)
LastBorrowMut ==
    CHOOSE i \in 1..(pc - 1) :
        /\ Program[i].op = "borrow_mut"
        /\ \A j \in (i + 1)..(pc - 1) : Program[j].op # "borrow_mut"

(* C18: main never faults; a RefMut is outstanding only inside the        *)
(* statement whose borrow_mut took it; and whenever a borrow or a         *)
(* borrow_mut is about to be requested, the cell it asks for is           *)
(* Unborrowed.                                                            *)
C18_NoBorrowFault ==
    /\ ~fault
    /\ (\E g \in DOMAIN guards : guards[g].excl) =>
           /\ pc \in DOMAIN Program
           /\ Instr.line = Program[LastBorrowMut].line
    /\ (pc \in DOMAIN Program /\ Instr.op \in {"borrow", "borrow_mut"}) =>
           heap[Resolve(heap, locals[Instr.src], Instr.path)].borrow_state = Unborrowed

(* the slot of a, read at l.187 and l.192, is about to be asked for *)
(* exclusively by the rewrite of l.195                              *)
C18_Witness ==
    /\ pc \in DOMAIN Program
    /\ Instr.op = "borrow_mut" /\ Instr.line = 195
    /\ HasPrinted(192) /\ HasPrinted(174)
    /\ ~fault

(* ---------------------------------------------------------------------- *)
(* What the rewrite drops, what the cycle keeps (MainSpec)                *)
(* ---------------------------------------------------------------------- *)
Returned == pc >= Len(Program)
NeverDestroyed == {c \in DOMAIN heap : heap[c].destroyed = 0}

(* C19: the rewrite of a's slot takes the cell of Nil, whose only handle  *)
(* the slot held, from count 1 to count 0 and destroys it, and puts the   *)
(* handle to b in its place; no Nil cell is destroyed twice; and once     *)
(* cycle_reference has returned, the cells not destroyed are a and b      *)
(* alone, each with count 1, no local holding a handle to either, a's     *)
(* slot holding b and b's slot holding a.                                 *)
C19_Step ==
    MainAssignSlot =>
        LET a == guards[Len(guards)].cell
            old == heap[a].own[1]
        IN  /\ a \in NodeA
            /\ heap[old].kind = "CycNil"
            /\ heap[old].strong_count = 1 /\ heap[old].destroyed = 0
            /\ heap'[old].strong_count = 0 /\ heap'[old].destroyed = 1
            /\ heap'[a].own = <<Target("cyc.b")>>

C19_Inv ==
    /\ \A c \in DOMAIN heap : heap[c].kind = "CycNil" => heap[c].destroyed <= 1
    /\ HasPrinted(198) =>
           \E c \in DOMAIN heap : heap[c].kind = "CycNil" /\ heap[c].destroyed = 1
    /\ Returned =>
           /\ NeverDestroyed = NodeA \cup NodeB
           /\ \E a \in NodeA, b \in NodeB :
                  /\ NodeA = {a} /\ NodeB = {b}
                  /\ heap[a].strong_count = 1 /\ heap[b].strong_count = 1
                  /\ HeldByLocals(a) = 0 /\ HeldByLocals(b) = 0
                  /\ heap[a].own = <<b>> /\ heap[b].own = <<a>>

C19_RewriteDropsNil == [](C19_Inv) /\ [][C19_Step]_vars

(* cycle_reference has just returned; main still owns b *)
C19_Witness ==
    /\ pc = Len(Program)
    /\ IsLive("main.b")
    /\ Cardinality(NeverDestroyed) = 2

(* ---------------------------------------------------------------------- *)
(* Reading through a box (BoxSpec)                                        *)
(* ---------------------------------------------------------------------- *)
(* C20: for every x, *v read through the reference, the Box and the MyBox *)
(* made from x equals x, so no assert_eq! fails; the boxes hold x; and a  *)
(* read changes no local, neither the box nor x.                          *)
C20_Inv ==
    /\ ~fault
    /\ \A v \in Pointers :
           IsLive(v) =>
               /\ Star(v) = locals["deref_use.x"].val
               /\ locals[v].kind \in {"Box", "MyBox"} => locals[v].val = locals["deref_use.x"].val

C20_Step ==
    /\ \A v \in Pointers : BoxAssertEq(v) => (locals' = locals /\ ~fault')
    /\ IsLive("deref_use.x") => locals'["deref_use.x"] = locals["deref_use.x"]

C20_ReadThroughBox == [](C20_Inv) /\ [][C20_Step]_vars

(* x is 2; both boxes were made from it and two reads have passed *)
C20_Witness ==
    /\ locals["deref_use.x"].val = 2
    /\ IsLive("deref_use.y_box") /\ IsLive("deref_use.z_mybox")
    /\ ~IsLive("deref_use.y")
    /\ pc = 5
    /\ ~fault
====
